---- MODULE Spec2Model ----
(***************************************************************************)
(* A model of src/utils/audio.ts: the silence detector (analyzeSilence),   *)
(* the two buffer reconstructors (createProcessedBuffer, processAudio) and *)
(* the WAV encoder (bufferToWav).                                          *)
(*                                                                         *)
(* Numbers.  A sample (a Float32Array element) is an integer number of     *)
(* thousandths: 1000 is full scale 1.0 and 15 is the threshold 0.015.  A   *)
(* time (a JS number of seconds) is an integer number of ticks, with       *)
(* TicksPerSecond ticks to the second; every sample rate of SampleRates    *)
(* divides TicksPerSecond, and a tick is finer than a sample, so that      *)
(* floor(time * sampleRate) is not the identity.  The double               *)
(* index / sampleRate is written as the tick count of the rational it      *)
(* rounds; sums, differences and comparisons of times are those of the     *)
(* rationals, and the product time * sampleRate under Math.floor is        *)
(* rounded as IEEE 754 rounds it (FloorOfQuotientTimesRate).               *)
(***************************************************************************)
EXTENDS Integers, Sequences, FiniteSets, TLC

VARIABLES
    buffer,          \* the AudioBuffer handed to the operation
    minDuration,     \* analyzeSilence's minDuration argument, in ticks
    silenceRegions,  \* the region list handed to the reconstructors
    len,             \* bufferToWav's len argument
    pc,              \* "input", or the name of the operation that has run
    result,          \* what the operation returned
    heap,            \* the arrays and buffers the caller and the operation
                     \* hold by reference (SpecFrame), as they are now
    \* The state of the App component (SpecApp), audio.ts:240-266.
    audioState,           \* name, duration and buffer of the loaded file
    processedBuffer,
    processedStats,
    lastProcessedConfig,
    hasProcessed,
    isProcessingUI,
    isAnalyzing,
    isPlaying,
    currentTime,
    removeSilenceActive,
    isProcessingDownload,
    maxSilenceDuration,
    \* The refs of the App component, audio.ts:270-273.
    sourceNodeRef,        \* the source node that plays, or Null
    pausedTimeRef,
    animationFrameRef,    \* the animation frame that is due, or Null
    \* The callbacks the event loop holds for the App component.
    timers,               \* the setTimeout callbacks due, with what they closed over
    uploads               \* the files handleFileUpload is awaiting the decoding of

\* The state and the refs of the App component, and its callbacks.
appVars ==
    <<audioState, processedBuffer, processedStats, lastProcessedConfig,
      hasProcessed, isProcessingUI, isAnalyzing, isPlaying, currentTime,
      removeSilenceActive, isProcessingDownload, maxSilenceDuration,
      sourceNodeRef, pausedTimeRef, animationFrameRef, timers, uploads>>

vars == <<buffer, minDuration, silenceRegions, len, pc, result, heap, appVars>>

(***************************************************************************)
(* Bounds of the model.                                                    *)
(***************************************************************************)
MaxChannels == 2
MaxBlocks == 3

(***************************************************************************)
(* Time and sample arithmetic.                                             *)
(***************************************************************************)
SampleRates == {8000, 44100}

\* 4 * lcm(8000, 44100): a quarter of a sample period is a whole number of
\* ticks.
TicksPerSecond == 4 * 3528000

TicksPerSample(sampleRate) == TicksPerSecond \div sampleRate

\* index / sampleRate (audio.ts:31,34,35,45,48,49), in ticks.
DivSampleRate(index, sampleRate) == index * TicksPerSample(sampleRate)

\* floor(log2(n)) and ceil(log2(n)), n >= 1.
RECURSIVE FloorLog2(_)
FloorLog2(n) == IF n < 2 THEN 0 ELSE 1 + FloorLog2(n \div 2)

CeilLog2(n) == IF n < 2 THEN 0 ELSE 1 + FloorLog2(n - 1)

\* (r * 2^n) % sampleRate for r < sampleRate, ten doublings at a time (the
\* products stay far below 2^31).
RECURSIVE DoubleMod(_, _, _)
DoubleMod(r, n, sampleRate) ==
    IF n <= 10 THEN (r * 2 ^ n) % sampleRate
    ELSE DoubleMod((r * 1024) % sampleRate, n - 10, sampleRate)

\* Math.floor((index / sampleRate) * sampleRate) in IEEE 754 doubles (53-bit
\* significand, round to nearest, ties to even), for index >= 0: the value of
\* audio.ts:146-147 for a time that audio.ts:34-35 or 48-49 produced.
\*   The quotient q has the binary exponent e and the significand
\* Q = floor(index * 2^s / sampleRate), s = 52 - e, rounded up when the
\* remainder r of that division is more than half of sampleRate (or half,
\* with Q odd).  So q * sampleRate is index + (sampleRate - r) / 2^s when
\* the quotient was rounded up and index - r / 2^s when it was rounded
\* down.  In the first case the product rounds to index or just above, in
\* the second it rounds back to index only if r / 2^s is at most half the
\* gap between index and the double below it, which is 2^(m - 52) for
\* 2^m < index < 2^(m + 1) and 2^(m - 53) for index = 2^m; if not, the
\* product is below index and its floor is index - 1.
FloorOfQuotientTimesRate(index, sampleRate) ==
    IF index = 0 THEN 0
    ELSE LET e == IF index >= sampleRate
                  THEN FloorLog2(index \div sampleRate)
                  ELSE -CeilLog2((sampleRate + index - 1) \div index)
             s == 52 - e
             r == DoubleMod(index % sampleRate, s, sampleRate)
             oddQ == (2 * DoubleMod(index % sampleRate, s - 1, sampleRate))
                         \div sampleRate = 1
             roundedUp == 2 * r > sampleRate \/ (2 * r = sampleRate /\ oddQ)
             m == FloorLog2(index)
             halfGap == IF index = 2 ^ m THEN m - e - 2 ELSE m - e - 1
         IN IF r = 0 \/ roundedUp \/ (halfGap >= 0 /\ r <= 2 ^ halfGap)
            THEN index
            ELSE index - 1

\* Math.floor(time * sampleRate) (audio.ts:146,147,192,193).  A time of a
\* whole number of sample periods is the double index / sampleRate; for a
\* time between two samples the rounding of the product is far below the
\* distance to the next whole number.
FloorTimesRate(time, sampleRate) ==
    IF time % TicksPerSample(sampleRate) = 0
    THEN FloorOfQuotientTimesRate(time \div TicksPerSample(sampleRate), sampleRate)
    ELSE time \div TicksPerSample(sampleRate)

\* Math.abs
Abs(x) == IF x < 0 THEN -x ELSE x

(***************************************************************************)
(* AudioBuffer: numberOfChannels, sampleRate, length and one Float32Array  *)
(* per channel, indexed from 0.                                            *)
(***************************************************************************)
getChannelData(abuffer, c) == abuffer.data[c]

(***************************************************************************)
(* analyzeSilence (audio.ts:4-55).                                         *)
(***************************************************************************)
\* Line 13: 0.015, in thousandths.  Line 19: the stride of the scan.
threshold == 15
step == 200

\* Lines 15-16: the scan starts sounding, with no region.
ScanStart == [isSilent |-> FALSE, silenceStart |-> 0, silenceRegions |-> <<>>]

\* Lines 31-37 without line 38.
ClosingVisit_keepSilent(st, i, sampleRate, minDur) ==
    IF DivSampleRate(i - st.silenceStart, sampleRate) >= minDur
    THEN [st EXCEPT !.silenceRegions = Append(@,
              [start |-> DivSampleRate(st.silenceStart, sampleRate),
               end |-> DivSampleRate(i, sampleRate)])]
    ELSE st

\* Lines 31-38 with line 38 inside the test of line 32: a run that is too
\* short stays open.
ClosingVisit_silentOnDiscard(st, i, sampleRate, minDur) ==
    IF DivSampleRate(i - st.silenceStart, sampleRate) >= minDur
    THEN [st EXCEPT !.silenceRegions = Append(@,
              [start |-> DivSampleRate(st.silenceStart, sampleRate),
               end |-> DivSampleRate(i, sampleRate)]),
                    !.isSilent = FALSE]
    ELSE st

\* Lines 31-38: a loud sample closes the open run.
ClosingVisit(st, i, sampleRate, minDur) ==
    LET duration == DivSampleRate(i - st.silenceStart, sampleRate)
        pushed == IF duration >= minDur
                  THEN Append(st.silenceRegions,
                           [start |-> DivSampleRate(st.silenceStart, sampleRate),
                            end |-> DivSampleRate(i, sampleRate)])
                  ELSE st.silenceRegions
    IN [st EXCEPT !.silenceRegions = pushed, !.isSilent = FALSE]

\* Lines 22-40 without the test of line 26: every quiet sample restarts the
\* run.
Visit_resetStart(st, rawData, i, sampleRate, minDur) ==
    IF Abs(rawData[i]) < threshold
    THEN [st EXCEPT !.isSilent = TRUE, !.silenceStart = i]
    ELSE IF st.isSilent
         THEN ClosingVisit(st, i, sampleRate, minDur)
         ELSE st

\* Lines 22-40: the body of the loop for the visited index i.
Visit(st, rawData, i, sampleRate, minDur) ==
    LET amplitude == Abs(rawData[i])
    IN IF amplitude < threshold
       THEN IF ~st.isSilent
            THEN [st EXCEPT !.isSilent = TRUE, !.silenceStart = i]
            ELSE st
       ELSE IF st.isSilent
            THEN ClosingVisit(st, i, sampleRate, minDur)
            ELSE st

\* Line 21: for (let i = 0; i < rawData.length; i += step).
RECURSIVE ScanFrom(_, _, _, _, _, _)
ScanFrom(st, rawData, length, i, sampleRate, minDur) ==
    IF i < length
    THEN ScanFrom(Visit(st, rawData, i, sampleRate, minDur),
                  rawData, length, i + step, sampleRate, minDur)
    ELSE st

\* Lines 44-52 without the duration test of line 46.
CheckEnd_noTest(st, length, sampleRate, minDur) ==
    IF st.isSilent
    THEN Append(st.silenceRegions,
             [start |-> DivSampleRate(st.silenceStart, sampleRate),
              end |-> DivSampleRate(length, sampleRate)])
    ELSE st.silenceRegions

\* Lines 44-54 without lines 44-52: the open run is dropped.
CheckEnd_noFlush(st, length, sampleRate, minDur) == st.silenceRegions

\* Lines 44-52 with the open run ended where the loop variable stopped, the
\* first multiple of step at or past the end of the buffer.
CheckEnd_endAtStride(st, length, sampleRate, minDur) ==
    LET i == ((length + step - 1) \div step) * step
    IN IF st.isSilent /\ DivSampleRate(i - st.silenceStart, sampleRate) >= minDur
       THEN Append(st.silenceRegions,
                [start |-> DivSampleRate(st.silenceStart, sampleRate),
                 end |-> DivSampleRate(i, sampleRate)])
       ELSE st.silenceRegions

\* Lines 44-52 with the last visited index in the place of
\* rawData.length.
CheckEnd_lastVisited(st, length, sampleRate, minDur) ==
    LET i == ((length - 1) \div step) * step
    IN IF st.isSilent /\ DivSampleRate(i - st.silenceStart, sampleRate) >= minDur
       THEN Append(st.silenceRegions,
                [start |-> DivSampleRate(st.silenceStart, sampleRate),
                 end |-> DivSampleRate(i, sampleRate)])
       ELSE st.silenceRegions

\* Lines 44-54: the end-of-stream check, and the return.
CheckEnd(st, length, sampleRate, minDur) ==
    IF st.isSilent /\ DivSampleRate(length - st.silenceStart, sampleRate) >= minDur
    THEN Append(st.silenceRegions,
             [start |-> DivSampleRate(st.silenceStart, sampleRate),
              end |-> DivSampleRate(length, sampleRate)])
    ELSE st.silenceRegions

\* Lines 11-54 with the last channel in the place of channel 0.
analyzeSilence_lastChannel(abuffer, minDur) ==
    LET rawData == getChannelData(abuffer, abuffer.numberOfChannels - 1)
        sampleRate == abuffer.sampleRate
    IN CheckEnd(ScanFrom(ScanStart, rawData, abuffer.length, 0, sampleRate, minDur),
                abuffer.length, sampleRate, minDur)

analyzeSilence(abuffer, minDur) ==
    LET rawData == getChannelData(abuffer, 0)
        sampleRate == abuffer.sampleRate
    IN CheckEnd(ScanFrom(ScanStart, rawData, abuffer.length, 0, sampleRate, minDur),
                abuffer.length, sampleRate, minDur)

(***************************************************************************)
(* Inputs of the detector: buffers of up to MaxBlocks strides, plus a      *)
(* partial stride.  Channel 0 holds a chosen sample at every visited index *)
(* and one fill value elsewhere; the other channels hold the fill value.   *)
(***************************************************************************)
VisitedSamples == {0, -14, 15}
FillSamples == {0, 900}
Remainders == {0, 1, 100}
DetectLengths == {b * step + r : b \in 0..MaxBlocks, r \in Remainders} \ {0}

NumVisited(length) == (length + step - 1) \div step

StridedBuffer(nc, sr, length, visited, fill) ==
    [numberOfChannels |-> nc, sampleRate |-> sr, length |-> length,
     data |-> [c \in 0..(nc - 1) |->
                 [i \in 0..(length - 1) |->
                     IF c = 0 /\ i % step = 0 THEN visited[i \div step] ELSE fill]]]

DetectBuffers ==
    UNION { UNION { { StridedBuffer(nc, sr, length, visited, fill) :
                        visited \in [0..(NumVisited(length) - 1) -> VisitedSamples] } :
                    length \in DetectLengths } :
            <<nc, sr, fill>> \in (1..MaxChannels) \X SampleRates \X FillSamples }

\* Mono buffers at 0.9 everywhere but for one span [a, b) of zeros, a and b
\* on a grid of a quarter of a stride, or b at the end of the buffer.
SpanPoints(length) == { (step \div 4) * k : k \in 0..(length \div (step \div 4)) } \cup {length}

SpanBuffer(sr, length, a, b) ==
    [numberOfChannels |-> 1, sampleRate |-> sr, length |-> length,
     data |-> [c \in {0} |->
                 [i \in 0..(length - 1) |-> IF a <= i /\ i < b THEN 0 ELSE 900]]]

SpanBuffers ==
    UNION { { SpanBuffer(sr, length, p[1], p[2]) :
                p \in { q \in SpanPoints(length) \X SpanPoints(length) : q[1] < q[2] } } :
            <<sr, length>> \in SampleRates \X DetectLengths }

\* 0, 5 ms, 25 ms (one stride at 8000 Hz), 50 ms.
MinDurations == {0, TicksPerSecond \div 200, TicksPerSecond \div 40, TicksPerSecond \div 20}

NoResult == [kind |-> "none"]

\* Nothing is held by reference.
NoHeap == <<>>

\* null, for a buffer, a source node, the statistics or the configuration.
Null == [kind |-> "null"]

\* The App component as useState and useRef initialise it (audio.ts:236-275),
\* with no callback due.  Of audioState the model keeps name, duration and
\* buffer; maxSilenceDuration starts at 0.5 s.
AppMounted ==
    /\ audioState = [name |-> "", duration |-> 0, buffer |-> Null]
    /\ processedBuffer = Null
    /\ processedStats = Null
    /\ lastProcessedConfig = Null
    /\ hasProcessed = FALSE
    /\ isProcessingUI = FALSE
    /\ isAnalyzing = FALSE
    /\ isPlaying = FALSE
    /\ currentTime = 0
    /\ removeSilenceActive = FALSE
    /\ isProcessingDownload = FALSE
    /\ maxSilenceDuration = TicksPerSecond \div 2
    /\ sourceNodeRef = Null
    /\ pausedTimeRef = 0
    /\ animationFrameRef = Null
    /\ timers = {}
    /\ uploads = {}

InitDetect ==
    /\ buffer \in DetectBuffers \cup SpanBuffers
    /\ minDuration \in MinDurations
    /\ silenceRegions = <<>>
    /\ len = 0
    /\ pc = "input"
    /\ result = NoResult
    /\ heap = NoHeap
    /\ AppMounted

AnalyzeSilence ==
    /\ pc = "input"
    /\ pc' = "analyzeSilence"
    /\ result' = [kind |-> "regions", regions |-> analyzeSilence(buffer, minDuration)]
    /\ UNCHANGED <<buffer, minDuration, silenceRegions, len, heap, appVars>>

NextDetect == AnalyzeSilence

SpecDetect == InitDetect /\ [][NextDetect]_vars

Analyzed == pc = "analyzeSilence"

(***************************************************************************)
(* The reconstruction shared by createProcessedBuffer (audio.ts:132-175)   *)
(* and processAudio (audio.ts:178-226).                                    *)
(***************************************************************************)

\* [...silenceRegions].sort((a, b) => a.start - b.start), lines 143 and 189:
\* a stable sort by start, here by insertion from the left.
RECURSIVE InsertByStart(_, _)
InsertByStart(sorted, region) ==
    IF sorted = <<>> THEN <<region>>
    ELSE IF Head(sorted).start <= region.start
         THEN <<Head(sorted)>> \o InsertByStart(Tail(sorted), region)
         ELSE <<region>> \o sorted

\* Lines 143 and 189 without the sort: the walk takes the regions in the
\* order of the caller's array.
SortByStart_none(regions) == regions

RECURSIVE SortByStart(_)
SortByStart(regions) ==
    IF regions = <<>> THEN <<>>
    ELSE InsertByStart(SortByStart(SubSeq(regions, 1, Len(regions) - 1)),
                       regions[Len(regions)])

\* Lines 146-152 with the cursor left at the start of the region.
WalkRegion_cursorAtStart(w, region, sampleRate) ==
    LET regionStartSample == FloorTimesRate(region.start, sampleRate)
    IN [cursor |-> regionStartSample,
        keepRegions |-> IF w.cursor < regionStartSample
                        THEN Append(w.keepRegions,
                                 [start |-> w.cursor, end |-> regionStartSample])
                        ELSE w.keepRegions]

\* Lines 146-152 (192-198): one region of the walk.
WalkRegion(w, region, sampleRate) ==
    LET regionStartSample == FloorTimesRate(region.start, sampleRate)
        regionEndSample == FloorTimesRate(region.end, sampleRate)
    IN [cursor |-> regionEndSample,
        keepRegions |-> IF w.cursor < regionStartSample
                        THEN Append(w.keepRegions,
                                 [start |-> w.cursor, end |-> regionStartSample])
                        ELSE w.keepRegions]

\* Lines 145-153 (191-199): for (const region of sortedSilence).
RECURSIVE WalkFrom(_, _, _)
WalkFrom(w, sortedSilence, sampleRate) ==
    IF sortedSilence = <<>> THEN w
    ELSE WalkFrom(WalkRegion(w, Head(sortedSilence), sampleRate),
                  Tail(sortedSilence), sampleRate)

\* Lines 141-153 without the trailing keep region of lines 154-156.
KeepRegions_noTail(regions, sampleRate, totalSamples) ==
    WalkFrom([cursor |-> 0, keepRegions |-> <<>>],
             SortByStart(regions), sampleRate).keepRegions

\* Lines 141-156 (187-202): the keep regions, in sample indices.
KeepRegions(regions, sampleRate, totalSamples) ==
    LET w == WalkFrom([cursor |-> 0, keepRegions |-> <<>>],
                      SortByStart(regions), sampleRate)
    IN IF w.cursor < totalSamples
       THEN Append(w.keepRegions, [start |-> w.cursor, end |-> totalSamples])
       ELSE w.keepRegions

\* Line 158 with both ends of a keep region counted.
RECURSIVE NewLength_inclusive(_)
NewLength_inclusive(keepRegions) ==
    IF keepRegions = <<>> THEN 0
    ELSE (Head(keepRegions).end - Head(keepRegions).start + 1)
         + NewLength_inclusive(Tail(keepRegions))

\* Lines 158 and 204: keepRegions.reduce((acc, reg) => acc + (reg.end - reg.start), 0).
RECURSIVE NewLength(_)
NewLength(keepRegions) ==
    IF keepRegions = <<>> THEN 0
    ELSE (Head(keepRegions).end - Head(keepRegions).start) + NewLength(Tail(keepRegions))

Min(a, b) == IF a < b THEN a ELSE b

\* oldData.subarray(reg.start, reg.end), lines 169 and 219: a view of the
\* elements begin .. end - 1, both ends clamped to the array.
Subarray(length, start, end) ==
    LET b == Min(start, length)
        e == Min(end, length)
    IN [begin |-> b, length |-> IF e > b THEN e - b ELSE 0]

\* newData.set(chunk, pointer), lines 170 and 220.
TypedArraySet(newData, oldData, chunk, pointer) ==
    [k \in DOMAIN newData |->
        IF pointer <= k /\ k < pointer + chunk.length
        THEN oldData[chunk.begin + (k - pointer)]
        ELSE newData[k]]

\* Lines 165-172 (215-222): the copy loop of one channel.
RECURSIVE CopyFrom(_, _, _, _, _)
CopyFrom(newData, oldData, length, keepRegions, pointer) ==
    IF keepRegions = <<>> THEN newData
    ELSE LET reg == Head(keepRegions)
             chunk == Subarray(length, reg.start, reg.end)
         IN CopyFrom(TypedArraySet(newData, oldData, chunk, pointer),
                     oldData, length, Tail(keepRegions),
                     pointer + (reg.end - reg.start))

\* context.createBuffer(channels, newLength, sampleRate), line 160, and
\* new AudioBuffer({length, numberOfChannels, sampleRate}), line 206: a
\* zero-filled buffer; the Web Audio API throws NotSupportedError for a
\* length that is not at least 1.
NewAudioBuffer(channels, newLength, sampleRate) ==
    IF newLength < 1
    THEN [kind |-> "error", name |-> "NotSupportedError"]
    ELSE [kind |-> "buffer",
          buffer |-> [numberOfChannels |-> channels, sampleRate |-> sampleRate,
                      length |-> newLength,
                      data |-> [c \in 0..(channels - 1) |->
                                   [k \in 0..(newLength - 1) |-> 0]]]]

\* Lines 162-173 (212-223): every channel copied into the new buffer.
FillChannels(newBuffer, originalBuffer, keepRegions) ==
    [newBuffer EXCEPT !.data =
        [c \in 0..(originalBuffer.numberOfChannels - 1) |->
            CopyFrom(getChannelData(newBuffer, c), getChannelData(originalBuffer, c),
                     originalBuffer.length, keepRegions, 0)]]

\* createProcessedBuffer, lines 132-175.
createProcessedBuffer(originalBuffer, regions) ==
    LET keepRegions == KeepRegions(regions, originalBuffer.sampleRate,
                                   originalBuffer.length)
        made == NewAudioBuffer(originalBuffer.numberOfChannels,
                               NewLength(keepRegions), originalBuffer.sampleRate)
    IN IF made.kind = "error" THEN made
       ELSE [kind |-> "buffer",
             buffer |-> FillChannels(made.buffer, originalBuffer, keepRegions)]

(***************************************************************************)
(* bufferToWav (audio.ts:76-129).  The ArrayBuffer is a function from byte *)
(* offsets to bytes; view and pos are the variables the nested setUint16   *)
(* and setUint32 share with the body.                                      *)
(***************************************************************************)

\* The byte at offset k of a little-endian integer.
ByteOf(data, k) ==
    IF k = 0 THEN data % 256
    ELSE IF k = 1 THEN (data \div 256) % 256
    ELSE IF k = 2 THEN (data \div 65536) % 256
    ELSE (data \div 16777216) % 256

\* DataView.setUint16 / setUint32 / setInt16 with littleEndian = true: n
\* bytes of data at byte offset at, lowest first.
SetLittleEndian(view, at, n, data) ==
    [o \in DOMAIN view |->
        IF at <= o /\ o < at + n THEN ByteOf(data, o - at) ELSE view[o]]

\* Lines 120-123 with the two bytes swapped.
setUint16_bigEndian(w, data) ==
    [view |-> [o \in DOMAIN w.view |->
                  IF o = w.pos THEN ByteOf(data, 1)
                  ELSE IF o = w.pos + 1 THEN ByteOf(data, 0)
                  ELSE w.view[o]],
     pos |-> w.pos + 2]

\* Lines 120-123.
setUint16(w, data) ==
    [view |-> SetLittleEndian(w.view, w.pos, 2, data), pos |-> w.pos + 2]

\* Lines 125-128.
setUint32(w, data) ==
    [view |-> SetLittleEndian(w.view, w.pos, 4, data), pos |-> w.pos + 4]

\* Line 78 without the header.
WavLength_noHeader(len_, numOfChan) == len_ * numOfChan * 2

\* Line 78: let length = len * numOfChan * 2 + 44.
WavLength(len_, numOfChan) == len_ * numOfChan * 2 + 44

\* Lines 88-102: the header, written field by field from pos = 0.
WriteHeader(w0, numOfChan, sampleRate, length) ==
    LET w1 == setUint32(w0, 1179011410)                  \* 0x46464952 "RIFF"
        w2 == setUint32(w1, length - 8)
        w3 == setUint32(w2, 1163280727)                  \* 0x45564157 "WAVE"
        w4 == setUint32(w3, 544501094)                   \* 0x20746d66 "fmt "
        w5 == setUint32(w4, 16)
        w6 == setUint16(w5, 1)
        w7 == setUint16(w6, numOfChan)
        w8 == setUint32(w7, sampleRate)
        w9 == setUint32(w8, sampleRate * 2 * numOfChan)
        w10 == setUint16(w9, numOfChan * 2)
        w11 == setUint16(w10, 16)
        w12 == setUint32(w11, 1635017060)                \* 0x61746164 "data"
    IN setUint32(w12, length - w12.pos - 4)

\* Line 110 without the clamp.
Clamp_none(sample) == sample

\* Line 110: Math.max(-1, Math.min(1, sample)).
Clamp(sample) ==
    IF sample > 1000 THEN 1000 ELSE IF sample < -1000 THEN -1000 ELSE sample

\* x | 0 of a quotient num / 1000: truncation toward zero.
TruncThousandths(num) ==
    IF num >= 0 THEN num \div 1000 ELSE -((-num) \div 1000)

\* Lines 110-111: the 16-bit value of one sample.
ToInt16(sample) ==
    LET clamped == Clamp(sample)
    IN TruncThousandths(IF 500 + clamped < 0 THEN clamped * 32768
                        ELSE clamped * 32767)

\* channels[i][pos], lines 110-111: an index past the end of the
\* Float32Array reads undefined, which the clamp turns into NaN and | 0
\* into 0.
SampleValue(channel, pos) ==
    IF pos \in DOMAIN channel THEN ToInt16(channel[pos]) ELSE 0

\* Lines 109-114: the inner loop from channel i on, for frame pos.  setInt16
\* stores the two's complement of the value.
RECURSIVE WriteFrame(_, _, _, _, _, _)
WriteFrame(view, abuffer, numOfChan, i, pos, offset) ==
    IF i < numOfChan
    THEN WriteFrame(SetLittleEndian(view, 44 + offset, 2,
                        SampleValue(getChannelData(abuffer, i), pos) % 65536),
                    abuffer, numOfChan, i + 1, pos, offset + 2)
    ELSE view

\* Lines 108-116: while (pos < len), pos being where the header left it.
RECURSIVE WriteData(_, _, _, _, _, _)
WriteData(view, abuffer, numOfChan, pos, offset, len_) ==
    IF pos < len_
    THEN WriteData(WriteFrame(view, abuffer, numOfChan, 0, pos, offset),
                   abuffer, numOfChan, pos + 1, offset + 2 * numOfChan, len_)
    ELSE view

\* bufferToWav: the bytes of the Blob, and pos as the header left it.
bufferToWav(abuffer, len_) ==
    LET numOfChan == abuffer.numberOfChannels
        length == WavLength(len_, numOfChan)
        w0 == [view |-> [o \in 0..(length - 1) |-> 0], pos |-> 0]
        h == WriteHeader(w0, numOfChan, abuffer.sampleRate, length)
    IN [kind |-> "blob",
        headerPos |-> h.pos,
        bytes |-> WriteData(h.view, abuffer, numOfChan, h.pos, 0, len_)]

\* Lines 178-226 without the trailing keep region of lines 200-202.
processAudio_noTail(originalBuffer, regions) ==
    LET keepRegions == KeepRegions_noTail(regions, originalBuffer.sampleRate,
                                          originalBuffer.length)
        newLength == NewLength(keepRegions)
        made == NewAudioBuffer(originalBuffer.numberOfChannels, newLength,
                               originalBuffer.sampleRate)
    IN IF made.kind = "error" THEN made
       ELSE LET newBuffer == FillChannels(made.buffer, originalBuffer, keepRegions)
            IN [kind |-> "blob", buffer |-> newBuffer, len |-> newLength,
                blob |-> bufferToWav(newBuffer, newLength)]

\* processAudio, lines 178-226; newBuffer is the buffer it hands to
\* bufferToWav.
processAudio(originalBuffer, regions) ==
    LET keepRegions == KeepRegions(regions, originalBuffer.sampleRate,
                                   originalBuffer.length)
        newLength == NewLength(keepRegions)
        made == NewAudioBuffer(originalBuffer.numberOfChannels, newLength,
                               originalBuffer.sampleRate)
    IN IF made.kind = "error" THEN made
       ELSE LET newBuffer == FillChannels(made.buffer, originalBuffer, keepRegions)
            IN [kind |-> "blob", buffer |-> newBuffer, len |-> newLength,
                blob |-> bufferToWav(newBuffer, newLength)]

(***************************************************************************)
(* The detect-then-remove pipeline of the app: the timer callback of       *)
(* handleProcessClick (audio.ts:504-528) on the buffer and the regions     *)
(* analyzeSilence returned for it (the silenceRegions memo).               *)
(***************************************************************************)

\* Line 507: silenceRegions.reduce((acc, region) => acc + (region.end - region.start), 0).
RECURSIVE TotalSilence(_)
TotalSilence(regions) ==
    IF regions = <<>> THEN 0
    ELSE TotalSilence(SubSeq(regions, 1, Len(regions) - 1))
         + (regions[Len(regions)].end - regions[Len(regions)].start)

\* Line 509: Math.max(0, oldDuration - totalSilence).
NewDuration(oldDuration, totalSilence) ==
    IF oldDuration - totalSilence > 0 THEN oldDuration - totalSilence ELSE 0

\* Lines 507-510 and 514-519: the statistics of the callback.
ProcessingStats(abuffer, regions) ==
    LET totalSilence == TotalSilence(regions)
        oldDuration == DivSampleRate(abuffer.length, abuffer.sampleRate)
        newDuration == NewDuration(oldDuration, totalSilence)
        processingTime == (oldDuration * 15) \div 100
    IN [oldDuration |-> oldDuration,
        newDuration |-> newDuration,
        timeSaved |-> totalSilence,
        processingTime |-> processingTime]

\* Lines 505-520: the statistics and the processed buffer the callback
\* stores, or the exception createProcessedBuffer throws.
ProcessTimeout(abuffer, regions) ==
    LET pBuffer == createProcessedBuffer(abuffer, regions)
    IN IF pBuffer.kind = "error" THEN pBuffer
       ELSE [kind |-> "processed",
             processedStats |-> ProcessingStats(abuffer, regions),
             buffer |-> pBuffer.buffer]

\* Inputs of the pipeline: loud buffers of up to MaxBlocks strides, plus a
\* partial stride of 15 samples, with a chosen sample at every visited
\* index of channel 0.
PipelineLengths == {b * step + r : b \in 0..MaxBlocks, r \in {0, 15}} \ {0}

PipelineBuffers ==
    UNION { UNION { { StridedBuffer(nc, sr, length, visited, 900) :
                        visited \in [0..(NumVisited(length) - 1) -> VisitedSamples] } :
                    length \in PipelineLengths } :
            <<nc, sr>> \in (1..MaxChannels) \X SampleRates }

InitPipeline ==
    /\ buffer \in PipelineBuffers
    /\ minDuration \in {0, TicksPerSecond \div 200}
    /\ silenceRegions = <<>>
    /\ len = 0
    /\ pc = "input"
    /\ result = NoResult
    /\ heap = NoHeap
    /\ AppMounted

HandleProcessClick ==
    /\ pc = "analyzeSilence"
    /\ pc' = "handleProcessClick"
    /\ silenceRegions' = result.regions
    /\ result' = ProcessTimeout(buffer, result.regions)
    /\ UNCHANGED <<buffer, minDuration, len, heap, appVars>>

NextPipeline == AnalyzeSilence \/ HandleProcessClick

SpecPipeline == InitPipeline /\ [][NextPipeline]_vars

(***************************************************************************)
(* Inputs of the reconstructors: short buffers whose samples are pairwise  *)
(* distinct and not zero, and lists of regions whose ends lie on a grid of *)
(* three quarters of a sample period (0, 0.75, 1.5, 2.25, 3, ...), which   *)
(* reaches two points past the sample after the end of the buffer.         *)
(***************************************************************************)
MaxLen == 3
MaxRegions == 2

Formats == {<<1, 8000>>, <<2, 44100>>}

RampBuffer(nc, sr, length) ==
    [numberOfChannels |-> nc, sampleRate |-> sr, length |-> length,
     data |-> [c \in 0..(nc - 1) |-> [i \in 0..(length - 1) |-> 100 * (i + 1) + c]]]

RemoveBuffers ==
    { RampBuffer(f[1], f[2], length) : f \in Formats, length \in 1..MaxLen }

TimeGrid(abuffer) ==
    { k * ((3 * TicksPerSample(abuffer.sampleRate)) \div 4) : k \in 0..(abuffer.length + 4) }

Regions(abuffer) ==
    { [start |-> s, end |-> e] : <<s, e>> \in
        { p \in TimeGrid(abuffer) \X TimeGrid(abuffer) : p[1] < p[2] } }

RegionLists(abuffer) ==
    UNION { [1..n -> Regions(abuffer)] : n \in 0..MaxRegions }

InitRemove ==
    /\ buffer \in RemoveBuffers
    /\ silenceRegions \in RegionLists(buffer)
    /\ minDuration = 0
    /\ len = 0
    /\ pc = "input"
    /\ result = NoResult
    /\ heap = NoHeap
    /\ AppMounted

CreateProcessedBuffer ==
    /\ pc = "input"
    /\ pc' = "createProcessedBuffer"
    /\ result' = createProcessedBuffer(buffer, silenceRegions)
    /\ UNCHANGED <<buffer, minDuration, silenceRegions, len, heap, appVars>>

ProcessAudio ==
    /\ pc = "input"
    /\ pc' = "processAudio"
    /\ result' = processAudio(buffer, silenceRegions)
    /\ UNCHANGED <<buffer, minDuration, silenceRegions, len, heap, appVars>>

NextRemove == CreateProcessedBuffer \/ ProcessAudio

SpecRemove == InitRemove /\ [][NextRemove]_vars

(***************************************************************************)
(* Inputs of the encoder: buffers shorter and longer than the 44 frames    *)
(* the header's write position stands for, all zero, a ramp of pairwise    *)
(* distinct samples, samples beyond full scale, or samples at full scale;  *)
(* len runs to one frame past the end of the buffer.                       *)
(***************************************************************************)
MaxFrames == 2

WavLengths == (1..MaxFrames) \cup { 44 + k : k \in 1..MaxFrames }

Patterns == {"zero", "ramp", "over", "full"}

PatternSample(pattern, nc, c, i) ==
    IF pattern = "zero" THEN 0
    ELSE IF pattern = "ramp" THEN 7 * (i * nc + c) - 995
    ELSE IF pattern = "over" THEN (IF (i + c) % 2 = 0 THEN 1500 ELSE -1500)
    ELSE IF (i + c) % 2 = 0 THEN 1000 ELSE -1000

PatternBuffer(pattern, nc, sr, length) ==
    [numberOfChannels |-> nc, sampleRate |-> sr, length |-> length,
     data |-> [c \in 0..(nc - 1) |->
                 [i \in 0..(length - 1) |-> PatternSample(pattern, nc, c, i)]]]

WavBuffers ==
    { PatternBuffer(q[1], q[2], q[3], q[4]) :
        q \in Patterns \X (1..MaxChannels) \X SampleRates \X WavLengths }

InitWav ==
    /\ buffer \in WavBuffers
    /\ len \in 0..(buffer.length + 1)
    /\ minDuration = 0
    /\ silenceRegions = <<>>
    /\ pc = "input"
    /\ result = NoResult
    /\ heap = NoHeap
    /\ AppMounted

BufferToWav ==
    /\ pc = "input"
    /\ pc' = "bufferToWav"
    /\ result' = bufferToWav(buffer, len)
    /\ UNCHANGED <<buffer, minDuration, silenceRegions, len, heap, appVars>>

NextWav == BufferToWav

SpecWav == InitWav /\ [][NextWav]_vars

(***************************************************************************)
(* The operations on the heap.  The caller holds its AudioBuffer and its   *)
(* array of regions by reference and hands the references over; heap maps  *)
(* a reference to what the object holds now.  sortedSilence and newBuffer  *)
(* are the array and the buffer the reconstructors allocate; buffer and    *)
(* silenceRegions keep what the caller's objects held at the call.         *)
(***************************************************************************)
CallerHeap(abuffer, regions) ==
    [originalBuffer |-> abuffer, silenceRegions |-> regions,
     sortedSilence |-> <<>>, newBuffer |-> NoResult]

\* Lines 143 and 189 without the spread: silenceRegions.sort(...) sorts the
\* caller's array in place and returns it.
SortedSilence_inPlace(h) ==
    [h EXCEPT !.silenceRegions = SortByStart(h.silenceRegions),
              !.sortedSilence = SortByStart(h.silenceRegions)]

\* Lines 143 and 189: [...silenceRegions] is a new array with the elements
\* of the caller's array, and sort sorts that new array in place.
SortedSilence(h) ==
    [h EXCEPT !.sortedSilence = SortByStart(h.silenceRegions)]

\* What a reconstructor leaves and returns: the exception, or newBuffer on
\* the heap and the reference to it.
BufferOnHeap(h1, made) ==
    IF made.kind = "error" THEN [heap |-> h1, result |-> made]
    ELSE [heap |-> [h1 EXCEPT !.newBuffer = made.buffer],
          result |-> [kind |-> "buffer", buffer |-> "newBuffer"]]

\* The same for processAudio: the Blob holds a copy of the bytes bufferToWav
\* wrote.
BlobOnHeap(h1, made) ==
    IF made.kind = "error" THEN [heap |-> h1, result |-> made]
    ELSE [heap |-> [h1 EXCEPT !.newBuffer = made.buffer],
          result |-> [kind |-> "blob", bytes |-> made.blob.bytes]]

\* Lines 144-174 and 190-225, on the sorted array.
FromSortedSilence(h1) ==
    BufferOnHeap(h1, createProcessedBuffer(h1.originalBuffer, h1.sortedSilence))

BlobFromSortedSilence(h1) ==
    BlobOnHeap(h1, processAudio(h1.originalBuffer, h1.sortedSilence))

\* createProcessedBuffer, lines 141-174: createBuffer allocates newBuffer,
\* subarray is a view of the original channel and set copies what the view
\* shows into the new channel; the reference to newBuffer is returned.
createProcessedBufferOnHeap(h) == FromSortedSilence(SortedSilence(h))

\* processAudio, lines 187-225: the same with new AudioBuffer.
processAudioOnHeap(h) == BlobFromSortedSilence(SortedSilence(h))

\* The operation leaves the heap done.heap and returns done.result.
Returns(done) ==
    /\ result' = done.result
    /\ heap' = done.heap

\* Regions between whole sample periods, to one sample past the end of the
\* buffer.
FrameRegions(abuffer) ==
    { [start |-> DivSampleRate(p[1], abuffer.sampleRate),
       end |-> DivSampleRate(p[2], abuffer.sampleRate)] :
        p \in { q \in (0..(abuffer.length + 1)) \X (0..(abuffer.length + 1)) :
                  q[1] < q[2] } }

FrameRegionLists(abuffer) ==
    UNION { [1..n -> FrameRegions(abuffer)] : n \in 0..MaxRegions }

InitFrame ==
    /\ buffer \in RemoveBuffers
    /\ silenceRegions \in FrameRegionLists(buffer)
    /\ minDuration = 0
    /\ len = buffer.length
    /\ pc = "input"
    /\ result = NoResult
    /\ heap = CallerHeap(buffer, silenceRegions)
    /\ AppMounted

\* analyzeSilence reads the channel getChannelData(0) returns and builds a
\* new array.
FrameAnalyzeSilence ==
    /\ pc = "input"
    /\ pc' = "analyzeSilence"
    /\ result' = [kind |-> "regions",
                  regions |-> analyzeSilence(heap.originalBuffer, minDuration)]
    /\ UNCHANGED <<buffer, minDuration, silenceRegions, len, heap, appVars>>

FrameCreateProcessedBuffer ==
    /\ pc = "input"
    /\ pc' = "createProcessedBuffer"
    /\ Returns(createProcessedBufferOnHeap(heap))
    /\ UNCHANGED <<buffer, minDuration, silenceRegions, len, appVars>>

FrameProcessAudio ==
    /\ pc = "input"
    /\ pc' = "processAudio"
    /\ Returns(processAudioOnHeap(heap))
    /\ UNCHANGED <<buffer, minDuration, silenceRegions, len, appVars>>

\* bufferToWav reads the channels getChannelData returns and writes its own
\* ArrayBuffer.
FrameBufferToWav ==
    /\ pc = "input"
    /\ pc' = "bufferToWav"
    /\ result' = bufferToWav(heap.originalBuffer, len)
    /\ UNCHANGED <<buffer, minDuration, silenceRegions, len, heap, appVars>>

\* The caller writes a sample of the buffer createProcessedBuffer returned.
WriteReturned ==
    /\ pc = "createProcessedBuffer"
    /\ result.kind = "buffer"
    /\ pc' = "write"
    /\ \E c \in 0..(heap[result.buffer].numberOfChannels - 1),
          k \in 0..(heap[result.buffer].length - 1) :
           heap' = [heap EXCEPT ![result.buffer].data[c][k] = -1000]
    /\ UNCHANGED <<buffer, minDuration, silenceRegions, len, result, appVars>>

NextFrame ==
    \/ FrameAnalyzeSilence
    \/ FrameCreateProcessedBuffer
    \/ FrameProcessAudio
    \/ FrameBufferToWav
    \/ WriteReturned

SpecFrame == InitFrame /\ [][NextFrame]_vars

(***************************************************************************)
(* The App component (audio.ts:235-533): its handlers, the callbacks they  *)
(* leave with the event loop (the 600 ms timer of handleProcessClick, the  *)
(* 100 ms timer of handleDownload, the continuation of handleFileUpload    *)
(* after the decoding, the animation frame of playAudio) and the controls  *)
(* the render of lines 575-870 offers in each state.  A handler runs to    *)
(* its end, or to its first await, in one step, and the component renders  *)
(* again before the next event, so that a handler reads the current state  *)
(* and a callback reads the state of the render that created it.           *)
(*   An AudioBuffer is held by reference.  The reference to the buffer     *)
(* decodeAudioData made of a file names the file; the reference to a       *)
(* buffer createProcessedBuffer made names the buffer and the regions it   *)
(* was called with; both carry the duration attribute of the buffer, and   *)
(* DecodedBuffer and BufferOf give what a reference holds.  pc is the      *)
(* handler or callback that ran last and result what it reported: an       *)
(* alert, a download, or the exception it did not catch.                   *)
(***************************************************************************)
MaxUploads == 1

\* The files the user has: two recordings, a file that is not audio and an
\* audio file decodeAudioData rejects.
Files ==
    { [name |-> "talk.wav", type |-> "audio/wav", decodes |-> TRUE],
      [name |-> "quiet.wav", type |-> "audio/wav", decodes |-> TRUE],
      [name |-> "broken.mp3", type |-> "audio/mpeg", decodes |-> FALSE],
      [name |-> "notes.txt", type |-> "text/plain", decodes |-> FALSE] }

\* What decodeAudioData (line 311) makes of the two recordings, at 8000 Hz:
\* talk.wav is loud but for a pause of 0.125 s, from sample 200 to sample
\* 1200 of 1400; quiet.wav is 0.125 s of silence.
DecodedBuffer(name) ==
    IF name = "talk.wav" THEN SpanBuffer(8000, 7 * step, step, 6 * step)
    ELSE SpanBuffer(8000, 5 * step, 0, 5 * step)

\* The reference to the buffer decoded from a file.
DecodedRef(file) ==
    [kind |-> "decoded", file |-> file.name,
     duration |-> DivSampleRate(DecodedBuffer(file.name).length,
                                DecodedBuffer(file.name).sampleRate)]

\* Lines 137-160 of createProcessedBuffer and 183-210 of processAudio: the
\* buffer createBuffer or new AudioBuffer returns for the length the keep
\* regions add up to, before the copy loop fills it, or the exception.
AllocatedBuffer(originalBuffer, regions) ==
    NewAudioBuffer(originalBuffer.numberOfChannels,
                   NewLength(KeepRegions(regions, originalBuffer.sampleRate,
                                         originalBuffer.length)),
                   originalBuffer.sampleRate)

\* The reference to the buffer createProcessedBuffer(originalBuffer,
\* regions) returned, which has the length and the sample rate of newBuffer.
ProcessedRef(originalBuffer, regions, newBuffer) ==
    [kind |-> "processed", originalBuffer |-> originalBuffer,
     silenceRegions |-> regions,
     duration |-> DivSampleRate(newBuffer.length, newBuffer.sampleRate)]

\* The positions of the range input of lines 666-671 the model uses: 0.1 s,
\* which the silence of both recordings reaches, and 0.5 s, which neither does.
SliderValues == {TicksPerSecond \div 10, TicksPerSecond \div 2}

\* What audioContext.currentTime - startTimeRef.current can be when it is
\* read (lines 380, 404), and the times a click on the waveform seeks to:
\* 0.025 s is inside every buffer of the model, 1 s past the end of each.
Progresses == {TicksPerSecond \div 40, TicksPerSecond}
SeekTimes == {0, TicksPerSecond \div 40}

\* Lines 278-281: the silenceRegions memo of a render.
silenceRegionsMemo(state, duration) ==
    IF state.buffer = Null THEN <<>>
    ELSE analyzeSilence(DecodedBuffer(state.buffer.file), duration)

\* The buffer a reference holds.
BufferOf(ref) ==
    IF ref.kind = "decoded" THEN DecodedBuffer(ref.file)
    ELSE createProcessedBuffer(DecodedBuffer(ref.originalBuffer.file),
                               ref.silenceRegions).buffer

\* Lines 337-339: getActiveBuffer.
getActiveBuffer ==
    IF removeSilenceActive /\ processedBuffer # Null THEN processedBuffer
    ELSE audioState.buffer

\* The left column shows the controls (lines 575, 619-715) and the right
\* column the result view (line 746).
ControlsShown == audioState.buffer # Null
ResultShown == hasProcessed /\ audioState.buffer # Null

\* A handler that reports nothing.
Ran(handler) ==
    /\ pc' = handler
    /\ result' = NoResult

\* The variables of the operations above, which the App leaves alone.
operationVars == <<buffer, minDuration, silenceRegions, len, heap>>

\* Lines 394-408: pauseAudio.  pausedTimeRef becomes the progress read.
pauseAudio(progress) ==
    /\ sourceNodeRef' = Null
    /\ animationFrameRef' = Null
    /\ pausedTimeRef' = progress
    /\ isPlaying' = FALSE

\* Lines 410-414: handleResetPlayback.
handleResetPlayback ==
    /\ sourceNodeRef' = Null
    /\ animationFrameRef' = Null
    /\ isPlaying' = FALSE
    /\ currentTime' = 0
    /\ pausedTimeRef' = 0

\* Lines 346-392: playAudio, for a buffer that is there.  The old source is
\* stopped, a new one plays the active buffer, and a frame is requested
\* for animate, which closes over the duration of that buffer (line 363).
playAudio ==
    /\ sourceNodeRef' = [kind |-> "source", buffer |-> getActiveBuffer]
    /\ isPlaying' = TRUE
    /\ animationFrameRef' = [kind |-> "frame", duration |-> getActiveBuffer.duration]

\* Lines 296-307: handleFileUpload to its first await.  The upload box is
\* there while no buffer is loaded (line 575).
HandleFileUpload ==
    /\ ~ControlsShown
    /\ Cardinality(uploads) < MaxUploads
    /\ \E file \in Files \ uploads :
          IF file.type \notin {"audio/wav", "audio/mpeg"}
          THEN /\ pc' = "handleFileUpload"
               /\ result' = [kind |-> "alert", message |-> "Please upload an audio file."]
               /\ UNCHANGED appVars
          ELSE /\ Ran("handleFileUpload")
               /\ isAnalyzing' = TRUE
               /\ hasProcessed' = FALSE
               /\ processedBuffer' = Null
               /\ lastProcessedConfig' = Null
               /\ handleResetPlayback
               /\ uploads' = uploads \cup {file}
               /\ UNCHANGED <<audioState, processedStats, isProcessingUI,
                              removeSilenceActive, isProcessingDownload,
                              maxSilenceDuration, timers>>
    /\ UNCHANGED operationVars

\* Lines 308-326: handleFileUpload after the decoding.
FileDecoded ==
    /\ \E file \in uploads :
          /\ uploads' = uploads \ {file}
          /\ pc' = "handleFileUpload:decoded"
          /\ IF file.decodes
             THEN /\ audioState' = [name |-> file.name,
                                    duration |-> DecodedRef(file).duration,
                                    buffer |-> DecodedRef(file)]
                  /\ result' = NoResult
             ELSE /\ result' = [kind |-> "alert", message |-> "Error decoding audio file."]
                  /\ UNCHANGED audioState
    /\ isAnalyzing' = FALSE
    /\ UNCHANGED <<processedBuffer, processedStats, lastProcessedConfig,
                   hasProcessed, isProcessingUI, isPlaying, currentTime,
                   removeSilenceActive, isProcessingDownload, maxSilenceDuration,
                   sourceNodeRef, pausedTimeRef, animationFrameRef, timers>>
    /\ UNCHANGED operationVars

\* Line 671: the range input.
SetMaxSilenceDuration ==
    /\ ControlsShown
    /\ \E duration \in SliderValues : maxSilenceDuration' = duration
    /\ Ran("setMaxSilenceDuration")
    /\ UNCHANGED <<audioState, processedBuffer, processedStats, lastProcessedConfig,
                   hasProcessed, isProcessingUI, isAnalyzing, isPlaying, currentTime,
                   removeSilenceActive, isProcessingDownload,
                   sourceNodeRef, pausedTimeRef, animationFrameRef, timers, uploads>>
    /\ UNCHANGED operationVars

\* Lines 447-454: handleResetFile, from the buttons of lines 628 and 710.
HandleResetFile ==
    /\ ControlsShown
    /\ Ran("handleResetFile")
    /\ handleResetPlayback
    /\ audioState' = [name |-> "", duration |-> 0, buffer |-> Null]
    /\ hasProcessed' = FALSE
    /\ processedBuffer' = Null
    /\ removeSilenceActive' = FALSE
    /\ maxSilenceDuration' = TicksPerSecond \div 2
    /\ UNCHANGED <<processedStats, lastProcessedConfig, isProcessingUI, isAnalyzing,
                   isProcessingDownload, timers, uploads>>
    /\ UNCHANGED operationVars

\* Line 495: the result on display is the result for this file name and
\* this duration.
AlreadyProcessed ==
    /\ hasProcessed
    /\ lastProcessedConfig # Null
    /\ lastProcessedConfig.fileId = audioState.name
    /\ lastProcessedConfig.duration = maxSilenceDuration

\* What the callback of lines 504-528 closes over.
ProcessTimer ==
    [kind |-> "process", audioState |-> audioState,
     silenceRegions |-> silenceRegionsMemo(audioState, maxSilenceDuration),
     maxSilenceDuration |-> maxSilenceDuration]

\* Lines 492-504 and 528: handleProcessClick, to the setTimeout.  The button
\* is disabled while isProcessingUI (line 692).
ProcessClick ==
    /\ ControlsShown
    /\ ~isProcessingUI
    /\ Ran("handleProcessClick")
    /\ IF AlreadyProcessed
       THEN /\ removeSilenceActive' = TRUE
            /\ UNCHANGED <<isProcessingUI, hasProcessed, timers>>
       ELSE /\ isProcessingUI' = TRUE
            /\ hasProcessed' = FALSE
            /\ timers' = timers \cup {ProcessTimer}
            /\ UNCHANGED removeSilenceActive
    /\ UNCHANGED <<audioState, processedBuffer, processedStats, lastProcessedConfig,
                   isAnalyzing, isPlaying, currentTime, isProcessingDownload,
                   maxSilenceDuration, sourceNodeRef, pausedTimeRef,
                   animationFrameRef, uploads>>
    /\ UNCHANGED operationVars

\* Lines 504-528: the callback of the 600 ms timer, on the buffer, the name,
\* the regions and the duration of the render of the click.  When
\* createProcessedBuffer throws (line 512, at its line 160) nothing is set;
\* when it returns, the state keeps the reference to the buffer it built.
ProcessCallback(timer) ==
    /\ timer.kind = "process"
    /\ timers' = timers \ {timer}
    /\ pc' = "handleProcessClick:timeout"
    /\ LET done == AllocatedBuffer(DecodedBuffer(timer.audioState.buffer.file),
                                   timer.silenceRegions)
       IN IF done.kind = "error"
          THEN /\ result' = done
               /\ UNCHANGED <<processedStats, processedBuffer, lastProcessedConfig,
                              hasProcessed, isProcessingUI, removeSilenceActive,
                              sourceNodeRef, animationFrameRef, isPlaying,
                              currentTime, pausedTimeRef>>
          ELSE /\ result' = NoResult
               /\ processedStats' = ProcessingStats(
                                         DecodedBuffer(timer.audioState.buffer.file),
                                         timer.silenceRegions)
               /\ processedBuffer' = ProcessedRef(timer.audioState.buffer,
                                                  timer.silenceRegions, done.buffer)
               /\ lastProcessedConfig' = [fileId |-> timer.audioState.name,
                                          duration |-> timer.maxSilenceDuration]
               /\ hasProcessed' = TRUE
               /\ isProcessingUI' = FALSE
               /\ removeSilenceActive' = TRUE
               /\ handleResetPlayback
    /\ UNCHANGED <<audioState, isAnalyzing, isProcessingDownload,
                   maxSilenceDuration, uploads>>
    /\ UNCHANGED operationVars

ProcessTimerFires == \E timer \in timers : ProcessCallback(timer)

\* What the callback of lines 460-481 closes over.
DownloadTimer ==
    [kind |-> "download", audioState |-> audioState,
     silenceRegions |-> silenceRegionsMemo(audioState, maxSilenceDuration)]

\* Lines 456-460 and 481: handleDownload, to the setTimeout.  The button is
\* in the result view and disabled while isProcessingDownload (line 830).
HandleDownload ==
    /\ ResultShown
    /\ ~isProcessingDownload
    /\ Ran("handleDownload")
    /\ isProcessingDownload' = TRUE
    /\ timers' = timers \cup {DownloadTimer}
    /\ UNCHANGED <<audioState, processedBuffer, processedStats, lastProcessedConfig,
                   hasProcessed, isProcessingUI, isAnalyzing, isPlaying, currentTime,
                   removeSilenceActive, maxSilenceDuration,
                   sourceNodeRef, pausedTimeRef, animationFrameRef, uploads>>
    /\ UNCHANGED operationVars

\* The callback with setIsProcessingDownload(false) at the end of the try
\* block instead of in finally: a failed export leaves the flag set.
DownloadCallback_noFinally(timer) ==
    /\ timer.kind = "download"
    /\ timers' = timers \ {timer}
    /\ pc' = "handleDownload:timeout"
    /\ result' = IF AllocatedBuffer(DecodedBuffer(timer.audioState.buffer.file),
                                    timer.silenceRegions).kind # "error"
                 THEN [kind |-> "download",
                       originalBuffer |-> timer.audioState.buffer,
                       silenceRegions |-> timer.silenceRegions]
                 ELSE [kind |-> "alert", message |-> "Failed to process audio."]
    /\ isProcessingDownload' = (result'.kind = "alert")
    /\ UNCHANGED <<audioState, processedBuffer, processedStats, lastProcessedConfig,
                   hasProcessed, isProcessingUI, isAnalyzing, isPlaying, currentTime,
                   removeSilenceActive, maxSilenceDuration,
                   sourceNodeRef, pausedTimeRef, animationFrameRef, uploads>>
    /\ UNCHANGED operationVars

\* Lines 460-481: the callback of the 100 ms timer.  processAudio throws at
\* its line 206 or returns the Blob, which the download names by the buffer
\* and the regions processAudio was called with.
DownloadCallback(timer) ==
    /\ timer.kind = "download"
    /\ timers' = timers \ {timer}
    /\ pc' = "handleDownload:timeout"
    /\ result' = IF AllocatedBuffer(DecodedBuffer(timer.audioState.buffer.file),
                                    timer.silenceRegions).kind # "error"
                 THEN [kind |-> "download",
                       originalBuffer |-> timer.audioState.buffer,
                       silenceRegions |-> timer.silenceRegions]
                 ELSE [kind |-> "alert", message |-> "Failed to process audio."]
    /\ isProcessingDownload' = FALSE
    /\ UNCHANGED <<audioState, processedBuffer, processedStats, lastProcessedConfig,
                   hasProcessed, isProcessingUI, isAnalyzing, isPlaying, currentTime,
                   removeSilenceActive, maxSilenceDuration,
                   sourceNodeRef, pausedTimeRef, animationFrameRef, uploads>>
    /\ UNCHANGED operationVars

DownloadTimerFires == \E timer \in timers : DownloadCallback(timer)

\* Lines 416-419: togglePlay, from the button of line 767.
TogglePlay ==
    /\ ResultShown
    /\ Ran("togglePlay")
    /\ IF isPlaying
       THEN \E progress \in Progresses : pauseAudio(progress)
       ELSE playAudio /\ UNCHANGED pausedTimeRef
    /\ UNCHANGED <<audioState, processedBuffer, processedStats, lastProcessedConfig,
                   hasProcessed, isProcessingUI, isAnalyzing, currentTime,
                   removeSilenceActive, isProcessingDownload, maxSilenceDuration,
                   timers, uploads>>
    /\ UNCHANGED operationVars

\* Lines 378-390: animate, the frame playAudio requested; past the end of
\* the buffer it does what handleResetPlayback does.
Animate ==
    /\ animationFrameRef # Null
    /\ Ran("animate")
    /\ \E progress \in Progresses :
          IF progress >= animationFrameRef.duration
          THEN handleResetPlayback
          ELSE /\ currentTime' = progress
               /\ UNCHANGED <<sourceNodeRef, animationFrameRef, isPlaying, pausedTimeRef>>
    /\ UNCHANGED <<audioState, processedBuffer, processedStats, lastProcessedConfig,
                   hasProcessed, isProcessingUI, isAnalyzing,
                   removeSilenceActive, isProcessingDownload, maxSilenceDuration,
                   timers, uploads>>
    /\ UNCHANGED operationVars

\* Lines 436-445: handleSeek, from a click on the waveform (line 760).
HandleSeek ==
    /\ ResultShown
    /\ Ran("handleSeek")
    /\ \E time \in SeekTimes :
          /\ pausedTimeRef' = time
          /\ currentTime' = time
    /\ IF isPlaying THEN playAudio
       ELSE UNCHANGED <<sourceNodeRef, isPlaying, animationFrameRef>>
    /\ UNCHANGED <<audioState, processedBuffer, processedStats, lastProcessedConfig,
                   hasProcessed, isProcessingUI, isAnalyzing,
                   removeSilenceActive, isProcessingDownload, maxSilenceDuration,
                   timers, uploads>>
    /\ UNCHANGED operationVars

\* Lines 424-426 without the pause: the source plays on.
StopIfPlaying_not ==
    UNCHANGED <<sourceNodeRef, animationFrameRef, isPlaying>>

\* Lines 424-426: if (isPlaying) pauseAudio(); line 428 then overwrites the
\* pausedTimeRef pauseAudio has set.
StopIfPlaying ==
    IF isPlaying
    THEN /\ sourceNodeRef' = Null
         /\ animationFrameRef' = Null
         /\ isPlaying' = FALSE
    ELSE UNCHANGED <<sourceNodeRef, animationFrameRef, isPlaying>>

\* Lines 421-434: handleToggleView, from the switch of line 791.
HandleToggleView ==
    /\ ResultShown
    /\ Ran("handleToggleView")
    /\ StopIfPlaying
    /\ currentTime' = 0
    /\ pausedTimeRef' = 0
    /\ removeSilenceActive' = ~removeSilenceActive
    /\ UNCHANGED <<audioState, processedBuffer, processedStats, lastProcessedConfig,
                   hasProcessed, isProcessingUI, isAnalyzing,
                   isProcessingDownload, maxSilenceDuration, timers, uploads>>
    /\ UNCHANGED operationVars

InitApp ==
    /\ buffer = Null
    /\ minDuration = 0
    /\ silenceRegions = <<>>
    /\ len = 0
    /\ pc = "input"
    /\ result = NoResult
    /\ heap = NoHeap
    /\ AppMounted

NextApp ==
    \/ HandleFileUpload
    \/ FileDecoded
    \/ SetMaxSilenceDuration
    \/ HandleResetFile
    \/ ProcessClick
    \/ ProcessTimerFires
    \/ HandleDownload
    \/ DownloadTimerFires
    \/ TogglePlay
    \/ Animate
    \/ HandleSeek
    \/ HandleToggleView

SpecApp == InitApp /\ [][NextApp]_vars

\* A timer of the kind comes off the set of the timers that are due: the
\* step of NextApp that does this is the step that runs its callback.
TimerFires(kind) ==
    \E timer \in timers :
        /\ timer.kind = kind
        /\ timers' = timers \ {timer}

\* The timers fire: setTimeout (lines 460, 504) runs its callback once the
\* delay is over, so no timer stays due forever.
SpecAppFair ==
    /\ InitApp
    /\ [][NextApp]_vars
    /\ WF_timers(TimerFires("process"))
    /\ WF_timers(TimerFires("download"))

(***************************************************************************)
(* Properties of analyzeSilence, under SpecDetect.                         *)
(***************************************************************************)
Detected == result.regions

\* buffer.duration, in ticks.
Duration(abuffer) == DivSampleRate(abuffer.length, abuffer.sampleRate)

\* C3: the regions analyzeSilence returns are sorted ascending by start and
\* pairwise non-overlapping: each region ends no later than the next starts.
C3_SortedNonOverlapping ==
    Analyzed =>
        \A i \in 1..(Len(Detected) - 1) :
            /\ Detected[i].start <= Detected[i + 1].start
            /\ Detected[i].end <= Detected[i + 1].start

\* Two regions are returned.
C3_Witness == Analyzed /\ Len(Detected) >= 2

\* C4: for minDuration > 0, every region analyzeSilence returns lasts at
\* least minDuration, whether a loud sample closed it or the end of the
\* buffer did.  (The bound is met exactly, so also within one stride.)
C4_AtLeastMinDuration ==
    (Analyzed /\ minDuration > 0) =>
        \A i \in 1..Len(Detected) :
            Detected[i].end - Detected[i].start >= minDuration

\* With minDuration > 0, a region closed by a loud sample is followed by a
\* region closed by the end of the buffer.
C4_Witness ==
    /\ Analyzed
    /\ minDuration > 0
    /\ Len(Detected) >= 2
    /\ Detected[1].end < Duration(buffer)
    /\ Detected[Len(Detected)].end = Duration(buffer)

(***************************************************************************)
(* Properties of createProcessedBuffer and processAudio, under SpecRemove. *)
(***************************************************************************)
Created == pc = "createProcessedBuffer"
Exported == pc = "processAudio"

\* The operation returned, and result.buffer is the buffer it built.
Built == (Created \/ Exported) /\ result.kind # "error"

SampleIndices(abuffer) == 0..(abuffer.length - 1)
ChannelIndices(abuffer) == 0..(abuffer.numberOfChannels - 1)

\* Index i lies in [floor(start * sampleRate), floor(end * sampleRate)).
InsideRegion(i, region, sampleRate) ==
    /\ FloorTimesRate(region.start, sampleRate) <= i
    /\ i < FloorTimesRate(region.end, sampleRate)

InsideSilence(i) ==
    \E n \in 1..Len(silenceRegions) :
        InsideRegion(i, silenceRegions[n], buffer.sampleRate)

\* No two regions of the list share a moment.
NonOverlapping(regions) ==
    \A m, n \in 1..Len(regions) :
        m # n => (regions[m].end <= regions[n].start
                  \/ regions[n].end <= regions[m].start)

\* Every region of the list ends within the buffer.
WithinBuffer(regions, abuffer) ==
    \A n \in 1..Len(regions) : regions[n].end <= Duration(abuffer)

\* Some region is not empty in sample indices, and starts inside the buffer.
RemovesSomething ==
    \E i \in SampleIndices(buffer) : InsideSilence(i)

RECURSIVE RemovedSamples(_, _)
RemovedSamples(regions, sampleRate) ==
    IF regions = <<>> THEN 0
    ELSE FloorTimesRate(Head(regions).end, sampleRate)
         - FloorTimesRate(Head(regions).start, sampleRate)
         + RemovedSamples(Tail(regions), sampleRate)

DurationLaw ==
    result.buffer.length
        = buffer.length - RemovedSamples(silenceRegions, buffer.sampleRate)

C6_AlignedOrderPreserving ==
    (Created /\ Built) =>
        /\ result.buffer.numberOfChannels = buffer.numberOfChannels
        /\ result.buffer.sampleRate = buffer.sampleRate
        /\ \A k \in SampleIndices(result.buffer) :
               \E i \in SampleIndices(buffer) :
                   /\ \A c \in ChannelIndices(buffer) :
                          result.buffer.data[c][k] = buffer.data[c][i]
                   /\ \A k2 \in 0..(k - 1) :
                          \E i2 \in 0..(i - 1) :
                              \A c \in ChannelIndices(buffer) :
                                  result.buffer.data[c][k2] = buffer.data[c][i2]

\* C7: createProcessedBuffer(buffer, []) returns a buffer equal to the
\* input: same length, channel count, sample rate and samples.
C7_EmptyListIsIdentity ==
    (Created /\ silenceRegions = <<>>) =>
        /\ result.kind = "buffer"
        /\ result.buffer = buffer

\* createProcessedBuffer has run on a stereo buffer of several samples and
\* an empty list.
C7_Witness ==
    /\ Created
    /\ silenceRegions = <<>>
    /\ buffer.numberOfChannels = 2
    /\ buffer.length >= 2

\* The silence regions cover the whole buffer.
CoversBuffer ==
    /\ NonOverlapping(silenceRegions)
    /\ \A i \in SampleIndices(buffer) : InsideSilence(i)

\* C8: when the silence regions cover the whole buffer, createProcessedBuffer
\* and processAudio return normally, and the buffer built has length 0 and
\* the channel count and sample rate of the input.
C8_FullCoverGivesEmptyBuffer ==
    ((Created \/ Exported) /\ CoversBuffer) =>
        /\ result.kind # "error"
        /\ result.buffer.length = 0
        /\ result.buffer.numberOfChannels = buffer.numberOfChannels
        /\ result.buffer.sampleRate = buffer.sampleRate

(***************************************************************************)
(* Properties of bufferToWav, under SpecWav.                               *)
(***************************************************************************)
Encoded == pc = "bufferToWav"

\* The signed 16-bit little-endian value at byte offset o.
Int16At(bytes, o) ==
    LET u == bytes[o] + 256 * bytes[o + 1]
    IN IF u >= 32768 THEN u - 65536 ELSE u

\* The n bytes from byte offset o.
BytesAt(bytes, o, n) == [k \in 1..n |-> bytes[o + k - 1]]

\* The n bytes of a little-endian unsigned integer.
LittleEndian(data, n) == [k \in 1..n |-> ByteOf(data, k - 1)]

\* C1: for len <= buffer.length, the 16-bit value at byte offset
\* 44 + 2 * (p * numChannels + c) is the 16-bit conversion of sample p of
\* channel c, for every frame p < len and every channel c.
C1_PayloadMapping ==
    (Encoded /\ len <= buffer.length) =>
        \A p \in 0..(len - 1), c \in ChannelIndices(buffer) :
            Int16At(result.bytes, 44 + 2 * (p * buffer.numberOfChannels + c))
                = ToInt16(buffer.data[c][p])

AllZero(abuffer) ==
    \A c \in ChannelIndices(abuffer), i \in SampleIndices(abuffer) :
        abuffer.data[c][i] = 0

\* C9: the blob has exactly 44 + len * numChannels * 2 bytes, and for an
\* all-zero buffer every byte from offset 44 on is zero.
C9_BlobSize ==
    Encoded =>
        /\ DOMAIN result.bytes = 0..(44 + len * buffer.numberOfChannels * 2 - 1)
        /\ AllZero(buffer) => \A o \in DOMAIN result.bytes :
                                  o >= 44 => result.bytes[o] = 0

\* An all-zero stereo buffer is encoded over more frames than the header
\* has bytes, so that the payload loop writes.
C9_Witness ==
    /\ Encoded
    /\ AllZero(buffer)
    /\ buffer.numberOfChannels = 2
    /\ len > 44

\* C10: the 44 header bytes are "RIFF", fileLength - 8, "WAVE", "fmt ", 16,
\* 1, numChannels, sampleRate, sampleRate * 2 * numChannels,
\* numChannels * 2, 16, "data" and len * numChannels * 2, little-endian at
\* offsets 0, 4, 8, 12, 16, 20, 22, 24, 28, 32, 34, 36 and 40; the write
\* position is 44 when the payload starts.
C10_Header ==
    Encoded =>
        LET b == result.bytes
            nc == buffer.numberOfChannels
            dataSize == len * nc * 2
        IN /\ BytesAt(b, 0, 4) = <<82, 73, 70, 70>>
           /\ BytesAt(b, 4, 4) = LittleEndian(44 + dataSize - 8, 4)
           /\ BytesAt(b, 8, 4) = <<87, 65, 86, 69>>
           /\ BytesAt(b, 12, 4) = <<102, 109, 116, 32>>
           /\ BytesAt(b, 16, 4) = <<16, 0, 0, 0>>
           /\ BytesAt(b, 20, 2) = <<1, 0>>
           /\ BytesAt(b, 22, 2) = LittleEndian(nc, 2)
           /\ BytesAt(b, 24, 4) = LittleEndian(buffer.sampleRate, 4)
           /\ BytesAt(b, 28, 4) = LittleEndian(buffer.sampleRate * 2 * nc, 4)
           /\ BytesAt(b, 32, 2) = LittleEndian(nc * 2, 2)
           /\ BytesAt(b, 34, 2) = <<16, 0>>
           /\ BytesAt(b, 36, 4) = <<100, 97, 116, 97>>
           /\ BytesAt(b, 40, 4) = LittleEndian(dataSize, 4)
           /\ result.headerPos = 44

\* A stereo 44100 Hz buffer is encoded over at least one frame.
C10_Witness ==
    /\ Encoded
    /\ buffer.numberOfChannels = 2
    /\ buffer.sampleRate = 44100
    /\ len >= 1

\* The sample clamped to [-1, 1], scaled by 32768 if 0.5 + sample < 0 and by
\* 32767 otherwise, and truncated toward zero.
Scaled(sample) ==
    LET clamped == IF sample < -1000 THEN -1000
                   ELSE IF sample > 1000 THEN 1000 ELSE sample
        factor == IF 2 * clamped < -1000 THEN 32768 ELSE 32767
        magnitude == (Abs(clamped) * factor) \div 1000
    IN IF clamped < 0 THEN -magnitude ELSE magnitude

\* The frames the payload loop reads: pos from 44 to len - 1, inside the
\* buffer.
WrittenFrames == { pos \in 44..(len - 1) : pos < buffer.length }

\* C11: every sample the payload loop writes is stored as the sample clamped
\* to [-1, 1], scaled by 32768 if 0.5 + sample < 0 and by 32767 otherwise,
\* and truncated toward zero; the stored value lies in [-32768, 32767], is
\* -32768 for -1 and below, 0 for 0 and 32767 for 1 and above, so that no
\* written sample wraps around.
C11_SampleConversion ==
    Encoded =>
        \A pos \in WrittenFrames, c \in ChannelIndices(buffer) :
            LET sample == buffer.data[c][pos]
                stored == Int16At(result.bytes,
                              44 + 2 * ((pos - 44) * buffer.numberOfChannels + c))
            IN /\ stored = Scaled(sample)
               /\ -32768 <= Scaled(sample) /\ Scaled(sample) <= 32767
               /\ sample <= -1000 => stored = -32768
               /\ sample = 0 => stored = 0
               /\ sample >= 1000 => stored = 32767

\* The payload loop has written samples above and below full scale of a
\* stereo buffer.
C11_Witness ==
    /\ Encoded
    /\ buffer.numberOfChannels = 2
    /\ 44 \in WrittenFrames
    /\ buffer.data[0][44] > 1000
    /\ buffer.data[1][44] < -1000

(***************************************************************************)
(* Further properties of analyzeSilence, under SpecDetect.                 *)
(***************************************************************************)

\* The indices the scan visits, and the last of them.
VisitedIndices == { i \in SampleIndices(buffer) : i % step = 0 }
LastVisited == ((buffer.length - 1) \div step) * step

\* The reference channel is below the threshold at index i.
Quiet(i) == Abs(buffer.data[0][i]) < threshold

\* C13: when the reference channel is below the threshold at some index the
\* scan visits, analyzeSilence(buffer, 0) does not return an empty list,
\* whether a loud sample closes the run or the run is still open at the end.
C13_ZeroMinDurationFindsSilence ==
    (Analyzed /\ minDuration = 0 /\ \E i \in VisitedIndices : Quiet(i)) =>
        Detected # <<>>

\* With minDuration = 0, the only quiet index visited is the last of
\* several, so that the run is open at the end of the buffer.
C13_Witness ==
    /\ Analyzed
    /\ minDuration = 0
    /\ LastVisited > 0
    /\ \A i \in VisitedIndices : Quiet(i) <=> i = LastVisited
    /\ Len(Detected) = 1

\* C14: every region analyzeSilence returns satisfies
\* 0 <= start < end <= buffer.duration, and start and end are the times of
\* sample indices with 0 <= startSample < endSample <= length, whatever the
\* length (a multiple of the stride or not) and for every minDuration >= 0.
C14_RegionWithinBuffer ==
    Analyzed =>
        \A n \in 1..Len(Detected) :
            LET region == Detected[n]
                startSample == region.start \div TicksPerSample(buffer.sampleRate)
                endSample == region.end \div TicksPerSample(buffer.sampleRate)
            IN /\ 0 <= region.start
               /\ region.start < region.end
               /\ region.end <= Duration(buffer)
               /\ region.start = DivSampleRate(startSample, buffer.sampleRate)
               /\ region.end = DivSampleRate(endSample, buffer.sampleRate)
               /\ 0 <= startSample
               /\ startSample < endSample
               /\ endSample <= buffer.length

\* A buffer whose length is not a multiple of the stride ends in a region
\* that starts after the start of the buffer.
C14_Witness ==
    /\ Analyzed
    /\ buffer.length % step # 0
    /\ Detected # <<>>
    /\ Detected[Len(Detected)].start > 0
    /\ Detected[Len(Detected)].end = Duration(buffer)

\* The span [a, b) that a contiguous set of indices makes up.
SpanOf(zeros) ==
    [a |-> CHOOSE i \in zeros : (i - 1) \notin zeros,
     b |-> 1 + (CHOOSE i \in zeros : (i + 1) \notin zeros)]

\* The indices at which the reference channel is zero.
Zeros == { i \in SampleIndices(buffer) : buffer.data[0][i] = 0 }

\* The buffer is mono, zero on one span [a, b) and at or above the
\* threshold everywhere else.
IsSpan(a, b) ==
    /\ buffer.numberOfChannels = 1
    /\ \A i \in SampleIndices(buffer) :
           IF a <= i /\ i < b THEN buffer.data[0][i] = 0
           ELSE Abs(buffer.data[0][i]) >= threshold

\* The span of zeros of the buffer, if the buffer is mono, zero on one span
\* and at or above the threshold everywhere else; [a |-> 0, b |-> 0] if not.
SpanOfZeros(zeros) ==
    IF buffer.numberOfChannels = 1 /\ zeros # {}
    THEN IF IsSpan(SpanOf(zeros).a, SpanOf(zeros).b) THEN SpanOf(zeros)
         ELSE [a |-> 0, b |-> 0]
    ELSE [a |-> 0, b |-> 0]

\* The law of C15 for the span [span.a, span.b).
SingleSpanLaw(span) ==
    /\ (span.b - span.a >= step
           /\ DivSampleRate(span.b - span.a - step, buffer.sampleRate) >= minDuration)
          => /\ Len(Detected) = 1
             /\ Abs(Detected[1].start - DivSampleRate(span.a, buffer.sampleRate))
                    <= DivSampleRate(step, buffer.sampleRate)
             /\ Abs(Detected[1].end - DivSampleRate(span.b, buffer.sampleRate))
                    <= DivSampleRate(step, buffer.sampleRate)
    /\ DivSampleRate(span.b - span.a + step, buffer.sampleRate) < minDuration
          => Detected = <<>>

\* C15: for a mono buffer that is loud everywhere but for one span [a, b) of
\* zeros, analyzeSilence returns exactly one region, with start within one
\* stride of a and end within one stride of b, whenever
\* b - a >= minDuration * sampleRate + step, and the empty list whenever
\* (b - a) + step < minDuration * sampleRate.
C15_SingleSpan ==
    (Analyzed /\ buffer.numberOfChannels = 1) =>
        (SpanOfZeros(Zeros).b > 0 => SingleSpanLaw(SpanOfZeros(Zeros)))

\* A span that starts and ends between two visited indices and before the
\* end of the buffer is long enough for a minDuration > 0, and one region
\* is returned.
C15_Witness ==
    /\ Analyzed
    /\ minDuration > 0
    /\ buffer.numberOfChannels = 1
    /\ \E a, b \in SpanPoints(buffer.length) :
           /\ a < b /\ b < buffer.length
           /\ a % step # 0 /\ b % step # 0
           /\ b - a >= step
           /\ DivSampleRate(b - a - step, buffer.sampleRate) >= minDuration
           /\ IsSpan(a, b)
    /\ Len(Detected) = 1

\* The visited indices at which a maximal run of quiet visited samples
\* starts.
RunStarts ==
    { i \in VisitedIndices : Quiet(i) /\ (i = 0 \/ ~Quiet(i - step)) }

\* Where the run that starts at i ends: the first loud visited index after
\* i, or the end of the buffer when there is none.
RunClose(i) ==
    LET loud == { j \in VisitedIndices : j > i /\ ~Quiet(j) }
    IN IF loud = {} THEN buffer.length
       ELSE CHOOSE j \in loud : \A k \in loud : j <= k

RunRegion(i) ==
    [start |-> DivSampleRate(i, buffer.sampleRate),
     end |-> DivSampleRate(RunClose(i), buffer.sampleRate)]

\* The runs that last at least minDuration.
LongRuns ==
    { i \in RunStarts :
        DivSampleRate(RunClose(i) - i, buffer.sampleRate) >= minDuration }

\* C18: the scan starts sounding; every maximal run of consecutive visited
\* samples below the threshold yields at most one region, which starts at
\* the first visited index of the run and ends at the first visited index
\* at or above the threshold after it (at the end of the buffer for a run
\* that nothing closes, C19); a run shorter than minDuration is discarded
\* without merging with a later run or moving its boundaries; every visited
\* sample inside a returned region is below the threshold.
C18_OneRegionPerRun ==
    Analyzed =>
        /\ Len(Detected) = Cardinality(LongRuns)
        /\ { Detected[n] : n \in 1..Len(Detected) } = { RunRegion(i) : i \in LongRuns }
        /\ \A n \in 1..Len(Detected), i \in VisitedIndices :
               (/\ Detected[n].start <= DivSampleRate(i, buffer.sampleRate)
                /\ DivSampleRate(i, buffer.sampleRate) < Detected[n].end) => Quiet(i)

\* A run too short for minDuration is discarded and a later run is
\* returned.
C18_Witness ==
    /\ Analyzed
    /\ \E i \in RunStarts \ LongRuns : \E j \in LongRuns : i < j
    /\ Len(Detected) = 1

\* The start of the run that is open when the scan ends.
OpenRunStart == CHOOSE i \in RunStarts : \A j \in RunStarts : j <= i

EndsAtBufferEnd(region) == region.end = Duration(buffer)

\* C19: if the last visited sample is below the threshold, the open run is
\* tested with the duration (length - silenceStart) / sampleRate and, when
\* it passes, is the last region returned, with end = length / sampleRate
\* (the end of the buffer, not the last visited index); when it does not
\* pass, and when the last visited sample is at or above the threshold, no
\* region ends at the end of the buffer.
C19_EndOfStreamFlush ==
    Analyzed =>
        IF /\ Quiet(LastVisited)
           /\ DivSampleRate(buffer.length - OpenRunStart, buffer.sampleRate)
                  >= minDuration
        THEN /\ Detected # <<>>
             /\ Detected[Len(Detected)]
                    = [start |-> DivSampleRate(OpenRunStart, buffer.sampleRate),
                       end |-> Duration(buffer)]
        ELSE \A n \in 1..Len(Detected) : ~EndsAtBufferEnd(Detected[n])

\* The run open at the end of a buffer whose length is not a multiple of
\* the stride spans several visited indices, passes a minDuration > 0 and
\* follows another region.
C19_Witness ==
    /\ Analyzed
    /\ minDuration > 0
    /\ buffer.length % step # 0
    /\ Quiet(LastVisited)
    /\ OpenRunStart < LastVisited
    /\ Len(Detected) >= 2
    /\ EndsAtBufferEnd(Detected[Len(Detected)])

\* A buffer of nc channels with the sample rate and length of abuffer and
\* its channel-0 samples at the multiples of the stride, and the sample v
\* everywhere else.
Variant(abuffer, nc, v) ==
    [numberOfChannels |-> nc, sampleRate |-> abuffer.sampleRate,
     length |-> abuffer.length,
     data |-> [c \in 0..(nc - 1) |->
                 [i \in 0..(abuffer.length - 1) |->
                     IF c = 0 /\ i % step = 0 THEN abuffer.data[0][i] ELSE v]]]

\* A mono variant at negative full scale and a variant of MaxChannels
\* channels that is zero.
Variants == {<<1, -1000>>, <<MaxChannels, 0>>}

\* C20: the list analyzeSilence returns depends only on minDuration, the
\* sample rate, the length and the channel-0 samples at the multiples of
\* the stride: analyzeSilence returns, for every buffer, the list it returns
\* for the variants of the buffer that keep those and nothing else, so that
\* two buffers that agree on them get the same list.
C20_DependsOnVisitedSamples ==
    Analyzed =>
        \A q \in Variants :
            analyzeSilence(Variant(buffer, q[1], q[2]), minDuration) = Detected

\* A stereo buffer is loud at index 0 of channel 0 and silent at index 0 of
\* channel 1 and between the visited indices of channel 0, and a region is
\* returned.
C20_Witness ==
    /\ Analyzed
    /\ buffer.numberOfChannels = 2
    /\ buffer.length > 1
    /\ ~Quiet(0)
    /\ buffer.data[1][0] = 0
    /\ buffer.data[0][1] = 0
    /\ Detected # <<>>

(***************************************************************************)
(* Properties of the detect-then-remove pipeline, under SpecPipeline.      *)
(***************************************************************************)
Processed == pc = "handleProcessClick"

\* C16: when the regions analyzeSilence returned for a buffer are handed to
\* createProcessedBuffer with the same buffer, the buffer built lasts
\* buffer.duration minus the summed durations of the regions, and so the
\* newDuration of the ProcessingStats is the duration of the processed
\* buffer.
C16_PipelineDuration ==
    (Processed /\ result.kind = "processed") =>
        /\ Duration(result.buffer) = Duration(buffer) - TotalSilence(silenceRegions)
        /\ result.processedStats.newDuration = Duration(result.buffer)

(***************************************************************************)
(* Further properties of the reconstructors, under SpecRemove.             *)
(***************************************************************************)

\* The keep intervals the reconstructors derive from their arguments.
Keep == KeepRegions(silenceRegions, buffer.sampleRate, buffer.length)

\* C17: for every region list, regions that start or end beyond the end of
\* the buffer included, every keep interval [s, e) lies within the buffer,
\* 0 <= s < e <= length, the intervals are ascending and pairwise disjoint,
\* and the reconstructed length does not exceed the original length.
C17_KeepWithinBuffer ==
    (Created \/ Exported) =>
        /\ \A n \in 1..Len(Keep) :
               /\ 0 <= Keep[n].start
               /\ Keep[n].start < Keep[n].end
               /\ Keep[n].end <= buffer.length
        /\ \A n \in 1..(Len(Keep) - 1) : Keep[n].end <= Keep[n + 1].start
        /\ NewLength(Keep) <= buffer.length

(***************************************************************************)
(* Properties of the operations on the heap, under SpecFrame.              *)
(***************************************************************************)

\* C12: after analyzeSilence, createProcessedBuffer, processAudio or
\* bufferToWav has returned, the caller's buffer (samples, length, sample
\* rate) and the caller's region list (content and order) are what they
\* were at the call; the buffer createProcessedBuffer returns is not the
\* caller's buffer, and a later write to it leaves the caller's buffer as
\* it was.
C12_InputsUnchanged ==
    pc # "input" =>
        /\ heap.originalBuffer = buffer
        /\ heap.silenceRegions = silenceRegions
        /\ result.kind = "buffer" => result.buffer # "originalBuffer"

\* createProcessedBuffer has sorted two regions of a stereo buffer that
\* were handed over out of order, and a sample of the buffer it returned
\* has been written.
C12_Witness ==
    /\ pc = "write"
    /\ buffer.numberOfChannels = 2
    /\ Len(silenceRegions) = 2
    /\ silenceRegions[2].start < silenceRegions[1].start
    /\ heap.sortedSilence # silenceRegions
    /\ heap.newBuffer.data # buffer.data

(***************************************************************************)
(* Relations between runs of the reconstructors, under SpecRemove.         *)
(***************************************************************************)

\* The lists that hold the elements of regions in another order.
Reorderings(regions) ==
    { [i \in 1..Len(regions) |-> regions[p[i]]] :
        p \in { q \in [1..Len(regions) -> 1..Len(regions)] :
                  \A i, j \in 1..Len(regions) : q[i] = q[j] => i = j } }

\* C21: for every buffer and every list of non-overlapping silence regions
\* (start < end each), createProcessedBuffer returns the same buffer, and
\* processAudio the same bytes, for every permutation of the list.
C21_OrderIndependent ==
    ((Created \/ Exported) /\ NonOverlapping(silenceRegions)) =>
        \A regions \in Reorderings(silenceRegions) :
            IF Created THEN createProcessedBuffer(buffer, regions) = result
            ELSE processAudio(buffer, regions) = result

\* createProcessedBuffer has built a buffer from two non-overlapping regions
\* that were handed over in descending order and that each remove a sample.
C21_Witness ==
    /\ Created
    /\ result.kind = "buffer"
    /\ NonOverlapping(silenceRegions)
    /\ Len(silenceRegions) = 2
    /\ silenceRegions[1].start > silenceRegions[2].start
    /\ \A n \in 1..2 : \E i \in SampleIndices(buffer) :
           InsideRegion(i, silenceRegions[n], buffer.sampleRate)

\* C22: for every buffer and every region list, processAudio throws exactly
\* when createProcessedBuffer throws, and otherwise the buffer it builds and
\* hands to bufferToWav equals the buffer createProcessedBuffer returns
\* (length, channel count, sample rate and samples), and the Blob it returns
\* is bufferToWav of that buffer with len the length of the buffer.
C22_SameReconstruction ==
    Exported =>
        IF result.kind = "error"
        THEN createProcessedBuffer(buffer, silenceRegions) = result
        ELSE /\ createProcessedBuffer(buffer, silenceRegions)
                    = [kind |-> "buffer", buffer |-> result.buffer]
             /\ result.len = result.buffer.length
             /\ result.blob = bufferToWav(result.buffer, result.buffer.length)

\* processAudio has built a stereo buffer of several samples, fewer than the
\* input has, from two regions.
C22_Witness ==
    /\ Exported
    /\ result.kind = "blob"
    /\ buffer.numberOfChannels = 2
    /\ Len(silenceRegions) = 2
    /\ result.buffer.length >= 2
    /\ result.buffer.length < buffer.length

(***************************************************************************)
(* Properties of the App, under SpecApp and SpecAppFair.                   *)
(***************************************************************************)
\* C23: whenever the app shows a result (hasProcessed with a buffer loaded),
\* the processed buffer it previews was computed from the buffer that is
\* loaded now, whatever the order of Process clicks, timer callbacks, resets
\* and uploads.
C23_ResultFromLoadedBuffer ==
    ResultShown =>
        /\ processedBuffer # Null
        /\ processedBuffer.originalBuffer = audioState.buffer

\* C24: every Process click that starts processing (isProcessingUI true) is
\* eventually followed by a state where isProcessingUI is false and
\* hasProcessed is true, for every loaded buffer and every position of the
\* slider, when the timers fire.
C24_ProcessingEnds ==
    isProcessingUI ~> (~isProcessingUI /\ hasProcessed)

\* C25: at every moment a result is shown for the loaded buffer, the regions
\* handleDownload would pass to processAudio (the silenceRegions memo of the
\* render) equal the regions the processed buffer on offer was built from,
\* also after the slider has moved without a Process click.
C25_DownloadMatchesPreview ==
    (ResultShown /\ processedBuffer # Null
                 /\ processedBuffer.originalBuffer = audioState.buffer) =>
        DownloadTimer.silenceRegions = processedBuffer.silenceRegions

\* The timer whose callback ran in this step.
FiredTimers == timers \ timers'

\* C26: a click on Process when a result exists for the same file name and
\* the same minimum duration starts no timer and only sets the processed
\* view active, leaving processedBuffer, processedStats, hasProcessed and
\* isProcessingUI unchanged; every other click clears hasProcessed, sets
\* isProcessingUI and starts the timer, whose callback recomputes the
\* processed buffer from the buffer and the regions of the click.
C26_ProcessClickCache ==
    [][/\ pc' = "handleProcessClick" =>
              IF AlreadyProcessed
              THEN /\ timers' = timers
                   /\ removeSilenceActive'
                   /\ UNCHANGED <<processedBuffer, processedStats,
                                  hasProcessed, isProcessingUI>>
              ELSE /\ ~hasProcessed'
                   /\ isProcessingUI'
                   /\ timers' = timers \cup {ProcessTimer}
                   /\ ProcessTimer \notin timers
       /\ pc' = "handleProcessClick:timeout" =>
              \E timer \in FiredTimers :
                  /\ processedBuffer'.kind = "processed"
                  /\ processedBuffer'.originalBuffer = timer.audioState.buffer
                  /\ processedBuffer'.silenceRegions = timer.silenceRegions
                  /\ hasProcessed'
                  /\ ~isProcessingUI'
      ]_vars

\* C27: every click on Download sets isProcessingDownload and defers the
\* export; the deferred export always clears the flag, whether processAudio
\* returns or throws, and reports the outcome (a download or the alert); a
\* failed export leaves the loaded audio, the processed buffer and the state
\* of the processed view as they were.
C27_DownloadBusyFlag ==
    [][/\ pc' = "handleDownload" =>
              /\ isProcessingDownload'
              /\ timers' = timers \cup {DownloadTimer}
       /\ pc' = "handleDownload:timeout" =>
              /\ ~isProcessingDownload'
              /\ result'.kind \in {"download", "alert"}
              /\ result'.kind = "alert" =>
                     UNCHANGED <<audioState, processedBuffer, processedStats,
                                 hasProcessed, removeSilenceActive>>
      ]_vars

\* An export has failed with the alert while a result was on display, and
\* the flag is clear.
C27_Witness ==
    /\ pc = "handleDownload:timeout"
    /\ result.kind = "alert"
    /\ ~isProcessingDownload
    /\ ResultShown
    /\ processedBuffer # Null

\* C28: after handleToggleView playback is stopped and the position is 0:
\* isPlaying is false, no source node plays and no frame is due, currentTime
\* and the paused offset are 0, and removeSilenceActive is negated; the
\* buffer a later togglePlay starts is the processed buffer exactly when
\* removeSilenceActive is true and a processed buffer exists, otherwise the
\* original.
C28_ToggleViewStopsPlayback ==
    [][/\ pc' = "handleToggleView" =>
              /\ ~isPlaying'
              /\ sourceNodeRef' = Null
              /\ animationFrameRef' = Null
              /\ currentTime' = 0
              /\ pausedTimeRef' = 0
              /\ removeSilenceActive' = ~removeSilenceActive
       /\ (pc' = "togglePlay" /\ isPlaying') =>
              sourceNodeRef'.buffer =
                  IF removeSilenceActive /\ processedBuffer.kind = "processed"
                  THEN processedBuffer
                  ELSE audioState.buffer
      ]_vars

\* The view has been switched back to the original while a processed
\* buffer exists, and nothing plays.
C28_Witness ==
    /\ pc = "handleToggleView"
    /\ ~removeSilenceActive
    /\ processedBuffer # Null
    /\ getActiveBuffer = audioState.buffer
    /\ ~isPlaying
    /\ currentTime = 0

(***************************************************************************)
(* The detector at two minimum durations, under SpecDetect.                *)
(***************************************************************************)
\* Every region of the list is a region of the other list, with the same
\* start and the same end.
AllReturnedBy(regions, others) ==
    \A n \in 1..Len(regions) :
        \E m \in 1..Len(others) : others[m] = regions[n]

\* C29: for d1 <= d2, every region analyzeSilence(buffer, d2) returns is
\* returned by analyzeSilence(buffer, d1) with the same start and end:
\* raising the minimum duration only drops regions.
C29_MonotoneInMinDuration ==
    Analyzed =>
        \A d1 \in MinDurations :
            d1 <= minDuration =>
                AllReturnedBy(Detected, analyzeSilence(buffer, d1))

\* At the higher minimum duration a region is returned, and a lower one
\* returns that region and more.
C29_Witness ==
    /\ Analyzed
    /\ Len(Detected) >= 1
    /\ \E d1 \in MinDurations :
           /\ d1 < minDuration
           /\ Len(analyzeSilence(buffer, d1)) > Len(Detected)

====
